---- MODULE Spec2Model ----
(***************************************************************************)
(* Model of src/main.rs: the four-stage pipeline                           *)
(*   create_crawler_csv -> create_output_folders -> process_videos_in_html *)
(*   -> download_videos                                                    *)
(* over a filesystem (the output tree plus crawler.csv) and a network      *)
(* whose every request may fail.  One run of main is a sequence of steps,  *)
(* one per CSV row / directory / directory entry; main may be run again on *)
(* the tree the previous run left.                                         *)
(***************************************************************************)
EXTENDS Integers, Sequences, FiniteSets, TLC

VARIABLES
    pc,         \* position of main: "csv", "open", "mirror", "extract",
                \* "download", "done"
    run,        \* number of the current run of main
    status,     \* "running", or how main ended: "ok", "err" (Err returned), "panic"
    csv,        \* resource/crawler.csv
    dirs,       \* the directories under output/
    fs,         \* the files under output/: <<dir, file name>> -> content
    row,        \* create_output_folders: index of the next record
    etodo,      \* process_videos_in_html: entries of read_dir(parent_dir) left
    dtodo,      \* download_videos: entries of read_dir(parent_dir) left
    cdir,       \* download_videos: the directory being listed
    ftodo,      \* download_videos: entries of read_dir(subdir) left
    web,        \* the page each host serves
    reqs,       \* HTTP requests issued in this run, per kind
    failed,     \* some HTTP request of this run failed (or gave unusable JSON)
    snap,       \* the tree and outcome the previous run left
    frags,      \* files written by save_video_elements
    media,      \* files created by download_video
    attempted,  \* directory entries download_videos has started on in this run
    last,       \* the step just taken
    hd,         \* the header record of resource/hd2023.csv
    quota,      \* records crawler.csv takes before a write to it fails
    given,      \* a function called on its own: its argument
    returned    \* a function called on its own: what it returned

vars == <<pc, run, status, csv, dirs, fs, row, etodo, dtodo, cdir, ftodo, web,
          reqs, failed, snap, frags, media, attempted, last, hd, quota, given,
          returned>>

\* Runs of main that are explored.
MaxRuns == 2

(***************************************************************************)
(* Strings.  An address or src string is kept by its parts: the scheme     *)
(* ("none" when the string has none), the first component after the scheme *)
(* (the host once a scheme is present) and the last path segment.  A file  *)
(* name or path segment is a sequence of pieces (<<"video_", "1", ".html">>)*)
(* and a display name is a sequence of characters.                         *)
(***************************************************************************)
Str(scheme, host, seg) == [scheme |-> scheme, host |-> host, last |-> seg]

\* A string that is no address at all (empty, or only whitespace).
Garbage == Str("none", "", <<>>)

\* The schemes for which Url::parse requires a host.
SpecialSchemes == {"http", "https", "ftp"}

\* Url::parse: an absolute URL needs a scheme (any scheme) and, for the
\* special schemes, a host.
UrlParse(s) ==
    [ok |-> s.scheme # "none" /\ (s.scheme \in SpecialSchemes => s.host # ""),
     url |-> s]

\* format!("https://{}", url)
PrependHttps(s) ==
    IF s.scheme = "none"
    THEN Str("https", s.host, s.last)
    ELSE Str("https", s.scheme, s.last)

ensure_https_scheme(s) ==
    IF UrlParse(s).ok THEN UrlParse(s) ELSE UrlParse(PrependHttps(s))

\* Path::new(src).file_name(): the last component of the string.
FileNameOf(s) == IF s.last # <<>> THEN s.last ELSE <<s.host>>

\* The hosts of Vimeo.
VimeoHosts == {"vimeo.com", "player.vimeo.com"}

\* src.contains("vimeo.com"): the substring anywhere in the string
ContainsVimeo(s) ==
    \/ s.host \in VimeoHosts
    \/ \E i \in 1..Len(s.last) : s.last[i] = "vimeo.com"

\* format!("vimeo_{}.mp4", vimeo_id), vimeo_id the last path segment
VimeoFileName(url) == <<"vimeo_">> \o url.last \o <<".mp4">>

IndexHtml == <<"index", ".html">>

Digit == <<"1", "2", "3", "4">>

\* format!("video_{}.html", i + 1), i the 0-based position
FragName(i) == <<"video_", Digit[i], ".html">>

\* file_name.starts_with("video_")
StartsWithVideo(name) == name # <<>> /\ name[1] = "video_"

(***************************************************************************)
(* sanitize_folder_name, on sequences of characters.                       *)
(***************************************************************************)
WordChars == {"A", "B", "C", "_"}
SpaceChars == {" ", "\t"}

\* Mutant: Regex::replace, which removes the first match only.
RemoveFirstDisallowed(name) ==
    LET bad == {i \in 1..Len(name) :
                   name[i] \notin WordChars \cup SpaceChars \cup {"-"}}
    IN  IF bad = {} THEN name
        ELSE LET k == CHOOSE i \in bad : \A j \in bad : i <= j
             IN  SubSeq(name, 1, k - 1) \o SubSeq(name, k + 1, Len(name))

RECURSIVE RemoveDisallowed(_)
\* Regex [^\w\s-], replace_all by ""
RemoveDisallowed(name) ==
    IF name = <<>> THEN <<>>
    ELSE IF Head(name) \in WordChars \cup SpaceChars \cup {"-"}
         THEN <<Head(name)>> \o RemoveDisallowed(Tail(name))
         ELSE RemoveDisallowed(Tail(name))

\* str::replace(" ", "_")
ReplaceSpace(name) ==
    [i \in 1..Len(name) |-> IF name[i] = " " THEN "_" ELSE name[i]]

sanitize_folder_name(name) == ReplaceSpace(RemoveDisallowed(name))

RECURSIVE TrimStart(_)
TrimStart(name) ==
    IF name # <<>> /\ Head(name) \in SpaceChars THEN TrimStart(Tail(name)) ELSE name

RECURSIVE TrimEnd(_)
TrimEnd(name) ==
    IF name # <<>> /\ name[Len(name)] \in SpaceChars
    THEN TrimEnd(SubSeq(name, 1, Len(name) - 1))
    ELSE name

\* str::trim
Trim(name) == TrimEnd(TrimStart(name))

(***************************************************************************)
(* File contents.  A text is kept as the video/iframe elements an HTML     *)
(* parser finds in it, in document order; bytes that are not UTF-8 are     *)
(* "bin".  An element is what the two selectors of download_videos see in  *)
(* its outer markup: its video tag (if it is one) and the iframe in it.    *)
(***************************************************************************)
Text(elems) == [kind |-> "text", elems |-> elems]
Bin == [kind |-> "bin", elems |-> <<>>]

Absent == [st |-> "absent", src |-> Garbage]
NoSrc == [st |-> "nosrc", src |-> Garbage]
Src(s) == [st |-> "src", src |-> s]

Video(s) == [video |-> Src(s), iframe |-> Absent]
Iframe(s) == [video |-> Absent, iframe |-> Src(s)]

SrcDirect == Str("https", "cdn.edu", <<"a", ".mp4">>)
SrcVideoNamed == Str("https", "cdn.edu", <<"video_", "9", ".mp4">>)
SrcVimeo == Str("https", "player.vimeo.com", <<"12345">>)
SrcOther == Str("https", "youtube.com", <<"embed">>)
\* https://links.edu/vimeo.com: "vimeo.com" in the path, not in the host
SrcMention == Str("https", "links.edu", <<"vimeo.com">>)

EDirect == Video(SrcDirect)
EVideoNamed == Video(SrcVideoNamed)
EBad == Video(Garbage)
EVimeo == Iframe(SrcVimeo)
EOther == Iframe(SrcOther)
EMention == Iframe(SrcMention)
\* <video><iframe src="https://player.vimeo.com/video/12345"></iframe></video>
ENested == [video |-> NoSrc, iframe |-> Src(SrcVimeo)]

\* The pages a host may serve, as their top-level video/iframe elements.
Pages ==
    { <<>>,
      <<EDirect, EVimeo>>,
      <<EBad, EDirect>>,
      <<EVideoNamed, EOther>>,
      <<ENested, EDirect>>,
      <<EMention>> }

\* The bodies a server may send for a media URL: bytes, or (no status or
\* content-type is checked) an HTML page.
MediaBodies(url) ==
    IF StartsWithVideo(url.last) THEN {Bin, Text(<<EDirect>>)} ELSE {Bin}

\* request.files.progressive.url of the Vimeo config
ProgressiveUrl == Str("https", "vod.vimeo.com", <<"p", ".mp4">>)

(***************************************************************************)
(* resource/hd2023.csv                                                     *)
(***************************************************************************)
InputRows ==
    << [WEBADDR |-> Str("none", "a.edu", <<>>), INSTNM |-> <<"A", " ", "B", " ">>],
       [WEBADDR |-> Garbage,                    INSTNM |-> <<"C">>],
       [WEBADDR |-> Str("https", "b.edu", <<>>), INSTNM |-> <<"A", "_", "B", ".">>],
       [WEBADDR |-> Str("http", "c.edu", <<>>),  INSTNM |-> <<"C", "-">>] >>

Hosts == {"a.edu", "b.edu", "c.edu"}

\* The pages each host may serve.
PagesOf(h) ==
    CASE h = "a.edu" -> { <<EDirect, EVimeo>>, <<EBad, EDirect>> }
      [] h = "b.edu" -> { <<>>, <<EVideoNamed, EOther>> }
      [] OTHER -> Pages \ {<<>>}

\* The header record of the input file, and one that lacks a column.
Header == <<"WEBADDR", "INSTNM">>
HeaderNoWebaddr == <<"INSTNM">>

\* headers.iter().position(|h| h == col) finds the column
HasColumn(header, col) == \E i \in 1..Len(header) : header[i] = col

NoCsv == [exists |-> FALSE, header |-> <<>>, rows |-> <<>>]

RECURSIVE NormalizedRows(_)
\* the loop of create_crawler_csv: one output record per address that normalizes
NormalizedRows(rows) ==
    IF rows = <<>> THEN <<>>
    ELSE LET r == Head(rows)
             n == ensure_https_scheme(r.WEBADDR)
         IN  IF n.ok
             THEN <<[WEBADDR |-> n.url, INSTNM |-> r.INSTNM]>>
                      \o NormalizedRows(Tail(rows))
             ELSE NormalizedRows(Tail(rows))

(***************************************************************************)
(* Filesystem and bookkeeping helpers.                                     *)
(***************************************************************************)
NoDir == <<"?">>

Exists(d, f) == <<d, f>> \in DOMAIN fs

\* fs::write / File::create + write_all: creates or truncates
WriteFile(files, d, f, content) ==
    [p \in DOMAIN files \cup {<<d, f>>} |->
        IF p = <<d, f>> THEN content ELSE files[p]]

NoReqs == [page |-> 0, config |-> 0, media |-> 0]

Count2(r, kind) == [r EXCEPT ![kind] = @ + 1]

Count(kind) == Count2(reqs, kind)

Step(op, d, f, out) == [op |-> op, dir |-> d, file |-> f, out |-> out]

NoPath == <<NoDir, <<>>>>

NoSnap ==
    [fs |-> <<>>, dirs |-> {}, status |-> "none", failed |-> FALSE, deleted |-> NoPath]

\* No function is being called on its own.
NoCall == [fn |-> "none"]

\* main starts with no output tree and no crawler.csv.
Fresh ==
    /\ pc = "csv"
    /\ run = 1
    /\ status = "running"
    /\ csv = NoCsv
    /\ dirs = {}
    /\ fs = <<>>
    /\ row = 1
    /\ etodo = {}
    /\ dtodo = {}
    /\ cdir = NoDir
    /\ ftodo = {}
    /\ web \in {w \in [Hosts -> Pages] : \A h \in Hosts : w[h] \in PagesOf(h)}
    /\ reqs = NoReqs
    /\ failed = FALSE
    /\ snap = NoSnap
    /\ frags = {}
    /\ media = {}
    /\ attempted = {}
    /\ last = Step("init", NoDir, <<>>, "")
    /\ given = NoCall
    /\ returned = NoCall

\* The input file is well-formed and every write to crawler.csv succeeds.
Init ==
    /\ Fresh
    /\ hd = Header
    /\ quota = Len(InputRows)

\* The input file may lack the WEBADDR column, and a write to crawler.csv may
\* fail once it holds some of the records.
InitInput ==
    /\ Fresh
    /\ hd \in {Header, HeaderNoWebaddr}
    /\ quota \in 0..Len(InputRows)

(***************************************************************************)
(* The network.                                                            *)
(***************************************************************************)
Empty == Text(<<>>)

\* fetch_html: reqwest::blocking::get(url)?.text()?
fetch_html(url) ==
    { [ok |-> FALSE, body |-> Empty],
      [ok |-> TRUE,  body |-> Text(web[url.host])] }

\* reqwest::blocking::get(config)?, response.json()?, [..]["url"].as_str().unwrap()
VimeoConfig == {"request failed", "no url", "ok"}

\* download_video: the request, File::create, response.bytes(), write_all
download_video(files, url, d, name) ==
    { [out |-> "request failed", ok |-> FALSE, files |-> files],
      [out |-> "body failed", ok |-> FALSE, files |-> WriteFile(files, d, name, Empty)] }
    \cup
    { [out |-> "downloaded", ok |-> TRUE, files |-> WriteFile(files, d, name, b)] :
        b \in MediaBodies(url) }

(***************************************************************************)
(* Stage 1: create_crawler_csv.                                            *)
(***************************************************************************)
\* crawler.csv as create_crawler_csv leaves it: from_path creates the file,
\* then the columns are looked up, then the header and the records are
\* written until a write fails.
WrittenCsv(header, rows, n) ==
    IF ~(HasColumn(header, "WEBADDR") /\ HasColumn(header, "INSTNM"))
    THEN [exists |-> TRUE, header |-> <<>>, rows |-> <<>>]
    ELSE [exists |-> TRUE, header |-> Header,
          rows |-> IF Len(rows) <= n THEN rows ELSE SubSeq(rows, 1, n)]

create_crawler_csv ==
    /\ pc = "csv"
    /\ IF csv.exists
       THEN /\ csv' = csv
            /\ pc' = "open"
            /\ status' = status
            /\ last' = Step("csv", NoDir, <<>>, "skipped")
       ELSE LET rows == NormalizedRows(InputRows)
                columns == HasColumn(hd, "WEBADDR") /\ HasColumn(hd, "INSTNM")
                ok == columns /\ Len(rows) <= quota
            IN  /\ csv' = WrittenCsv(hd, rows, quota)
                /\ pc' = IF ok THEN "open" ELSE "done"
                /\ status' = IF ok THEN status ELSE "err"
                /\ last' = Step("csv", NoDir, <<>>,
                                IF ok THEN "created"
                                ELSE IF columns THEN "write failed"
                                ELSE "no column")
    /\ row' = 1
    /\ UNCHANGED <<run, dirs, fs, etodo, dtodo, cdir, ftodo, web, hd, quota,
                   given, returned, reqs, failed, snap, frags, media,
                   attempted>>

(***************************************************************************)
(* Stage 2: create_output_folders, one step to open crawler.csv and one    *)
(* step per record of it.                                                  *)
(***************************************************************************)
\* Where main stands once crawler.csv is open: at its first record, or, when
\* it has none, past the loop.
AfterOpen(n) ==
    IF n > 0 THEN "mirror" ELSE IF dirs = {} THEN "done" ELSE "extract"

\* The reader on crawler.csv and the two column lookups.
create_output_folders_open ==
    /\ pc = "open"
    /\ IF HasColumn(csv.header, "WEBADDR") /\ HasColumn(csv.header, "INSTNM")
       THEN /\ pc' = AfterOpen(Len(csv.rows))
            /\ status' = IF pc' = "done" THEN "ok" ELSE status
            /\ etodo' = IF pc' = "extract" THEN dirs ELSE etodo
            /\ last' = Step("open", NoDir, <<>>, "opened")
       ELSE /\ pc' = "done"
            /\ status' = "err"
            /\ etodo' = etodo
            /\ last' = Step("open", NoDir, <<>>, "no column")
    /\ UNCHANGED <<run, csv, dirs, fs, row, dtodo, cdir, ftodo, web, hd,
                   quota, given, returned, reqs, failed, snap, frags, media,
                   attempted>>

\* Mutant: no existence check, every record is fetched again.
MirrorSkipsNever(d) == FALSE

\* Mutant: only the folder is checked, not index.html.
MirrorSkipsDirOnly(d) == d \in dirs

\* "Skip fetching if the folder and HTML output already exist"
MirrorSkips(d) == d \in dirs /\ Exists(d, IndexHtml)

\* Mutant: per-item pipelining, extraction starts after the first record.
AfterRowPipelined(r, n) == "extract"

\* Where main stands after record r of n: the loop goes on, or
\* create_output_folders returns and main calls process_videos_in_html.
AfterRow(r, n) == IF r < n THEN "mirror" ELSE "extract"

\* Mutant: `fetch_html(&full_url)?`, a failed fetch returns from the pass.
MirrorAfterFetchAbort(ok, next) == IF ok THEN next ELSE "done"

\* `if let Ok(html_content) = fetch_html(..) { write } else { println }`:
\* the loop goes on either way.
MirrorAfterFetch(ok, next) == next

create_output_folders ==
    /\ pc = "mirror"
    /\ row <= Len(csv.rows)
    /\ LET r == csv.rows[row]
           n == ensure_https_scheme(r.WEBADDR)
           d == sanitize_folder_name(Trim(r.INSTNM))
           next == AfterRow(row, Len(csv.rows))
       IN  /\ row' = row + 1
           /\ \/ /\ ~n.ok
                 /\ pc' = next
                 /\ last' = Step("mirror", d, IndexHtml, "bad url")
                 /\ UNCHANGED <<dirs, fs, reqs, failed>>
              \/ /\ n.ok
                 /\ MirrorSkips(d)
                 /\ pc' = next
                 /\ last' = Step("mirror", d, IndexHtml, "skipped")
                 /\ UNCHANGED <<dirs, fs, reqs, failed>>
              \/ /\ n.ok
                 /\ ~MirrorSkips(d)
                 /\ dirs' = dirs \cup {d}
                 /\ reqs' = Count("page")
                 /\ \E res \in fetch_html(n.url) :
                       /\ fs' = IF res.ok THEN WriteFile(fs, d, IndexHtml, res.body)
                                ELSE fs
                       /\ failed' = (failed \/ ~res.ok)
                       /\ pc' = MirrorAfterFetch(res.ok, next)
                       /\ last' = Step("mirror", d, IndexHtml,
                                       IF res.ok THEN "fetched" ELSE "fetch failed")
           /\ etodo' = IF pc' = "extract" THEN dirs' ELSE etodo
    /\ UNCHANGED <<run, status, csv, dtodo, cdir, ftodo, web, hd, quota,
                   given, returned, snap, frags, media, attempted>>

(***************************************************************************)
(* Stage 3: process_videos_in_html, one step per entry of output/.         *)
(***************************************************************************)
RECURSIVE Matches(_)
\* document.select("video, iframe"), in document order: an element and then
\* the iframe nested in it
Matches(elems) ==
    IF elems = <<>> THEN <<>>
    ELSE LET e == Head(elems)
         IN  (IF e.video.st # "absent" /\ e.iframe.st # "absent"
              THEN <<e, [video |-> Absent, iframe |-> e.iframe]>>
              ELSE <<e>>) \o Matches(Tail(elems))

\* Mutant: the selector is "video" alone.
extract_videos_only(content) ==
    LET m == SelectSeq(Matches(content.elems), LAMBDA e : e.video.st # "absent")
    IN  [i \in 1..Len(m) |-> Text(<<m[i]>>)]

\* extract_video_elements: the outer markup of every match
extract_video_elements(content) ==
    LET m == Matches(content.elems)
    IN  [i \in 1..Len(m) |-> Text(<<m[i]>>)]

RECURSIVE SaveFromBreak(_, _, _, _)
\* Mutant: `break` instead of `continue` at a file that exists.
SaveFromBreak(files, d, strs, i) ==
    IF i > Len(strs) \/ <<d, FragName(i)>> \in DOMAIN files THEN files
    ELSE SaveFromBreak(WriteFile(files, d, FragName(i), strs[i]), d, strs, i + 1)

RECURSIVE SaveFrom(_, _, _, _)
\* save_video_elements, from position i on: write video_{i}.html unless it exists
SaveFrom(files, d, strs, i) ==
    IF i > Len(strs) THEN files
    ELSE SaveFrom(IF <<d, FragName(i)>> \in DOMAIN files
                  THEN files
                  ELSE WriteFile(files, d, FragName(i), strs[i]),
                  d, strs, i + 1)

save_video_elements(files, d, strs) == SaveFrom(files, d, strs, 1)

\* Where main stands once the entries `left` of output/ remain: the loop goes
\* on, or process_videos_in_html returns and main calls download_videos, which
\* returns at once when output/ has no entry.
AfterDir(left) ==
    IF left # {} THEN "extract" ELSE IF dirs = {} THEN "done" ELSE "download"

process_videos_in_html ==
    /\ pc = "extract"
    /\ \E d \in etodo :
          LET left == etodo \ {d}
              next == AfterDir(left)
          IN  /\ etodo' = left
              /\ \/ /\ ~Exists(d, IndexHtml)
                    /\ pc' = next
                    /\ status' = IF next = "done" THEN "ok" ELSE status
                    /\ dtodo' = IF next = "download" THEN dirs ELSE dtodo
                    /\ last' = Step("extract", d, IndexHtml, "no page")
                    /\ UNCHANGED <<fs, frags>>
                 \/ /\ Exists(d, IndexHtml)
                    /\ fs[<<d, IndexHtml>>].kind = "bin"
                    /\ pc' = "done"
                    /\ status' = "err"
                    /\ dtodo' = dtodo
                    /\ last' = Step("extract", d, IndexHtml, "unreadable")
                    /\ UNCHANGED <<fs, frags>>
                 \/ /\ Exists(d, IndexHtml)
                    /\ fs[<<d, IndexHtml>>].kind = "text"
                    /\ fs' = save_video_elements(
                                 fs, d, extract_video_elements(fs[<<d, IndexHtml>>]))
                    /\ frags' = frags \cup (DOMAIN fs' \ DOMAIN fs)
                    /\ pc' = next
                    /\ status' = IF next = "done" THEN "ok" ELSE status
                    /\ dtodo' = IF next = "download" THEN dirs ELSE dtodo
                    /\ last' = Step("extract", d, IndexHtml, "extracted")
    /\ UNCHANGED <<run, csv, dirs, row, cdir, ftodo, web, hd, quota, given,
                   returned, reqs, failed, snap, media, attempted>>

(***************************************************************************)
(* Stage 4: download_videos, one step per directory (read_dir of it) and   *)
(* one per entry whose name starts with "video_".                          *)
(***************************************************************************)
\* The entries of d the inner loop acts on: is_file() && starts_with("video_")
Listing(d) == {p[2] : p \in {q \in DOMAIN fs : q[1] = d /\ StartsWithVideo(q[2])}}

download_videos_dir ==
    /\ pc = "download"
    /\ cdir = NoDir
    /\ \E d \in dtodo :
          LET left == dtodo \ {d}
              files == Listing(d)
              over == (files = {} /\ left = {})
          IN  /\ dtodo' = left
              /\ ftodo' = files
              /\ cdir' = IF files = {} THEN NoDir ELSE d
              /\ pc' = IF over THEN "done" ELSE "download"
              /\ status' = IF over THEN "ok" ELSE status
              /\ last' = Step("list", d, <<>>, "listed")
    /\ UNCHANGED <<run, csv, dirs, fs, row, etodo, web, hd, quota, given,
                   returned, reqs, failed, snap, frags, media, attempted>>

RECURSIVE FirstVideo(_)
\* document.select(&video_selector).next()
FirstVideo(elems) ==
    IF elems = <<>> THEN Absent
    ELSE IF Head(elems).video.st # "absent" THEN Head(elems).video
         ELSE FirstVideo(Tail(elems))

RECURSIVE FirstIframe(_)
\* document.select(&iframe_selector).next()
FirstIframe(elems) ==
    IF elems = <<>> THEN Absent
    ELSE IF Head(elems).iframe.st # "absent" THEN Head(elems).iframe
         ELSE FirstIframe(Tail(elems))

\* The branch of download_videos a fragment's text takes.
Classify(content) ==
    LET v == FirstVideo(content.elems)
        f == FirstIframe(content.elems)
    IN  IF v.st # "absent"
        THEN IF v.st = "src" THEN "direct" ELSE "none"
        ELSE IF f.st = "src"
             THEN IF ContainsVimeo(f.src) THEN "vimeo" ELSE "other"
             ELSE "none"

\* The output file name download_videos derives for a fragment:
\* Path::new(src).file_name(), or vimeo_{id}.mp4
DerivedName(content) ==
    CASE Classify(content) = "direct" ->
           FileNameOf(FirstVideo(content.elems).src)
      [] Classify(content) = "vimeo" ->
           VimeoFileName(ensure_https_scheme(FirstIframe(content.elems).src).url)
      [] OTHER -> <<>>

\* The loop goes on with the entries `left` of the directory.
Proceed(f, out, files, r, fl, left) ==
    LET over == (left = {} /\ dtodo = {})
    IN  /\ fs' = files
        /\ media' = media \cup (DOMAIN files \ DOMAIN fs)
        /\ reqs' = r
        /\ failed' = fl
        /\ attempted' = attempted \cup {<<cdir, f>>}
        /\ last' = Step("download", cdir, f, out)
        /\ ftodo' = left
        /\ cdir' = IF left = {} THEN NoDir ELSE cdir
        /\ pc' = IF over THEN "done" ELSE "download"
        /\ status' = IF over THEN "ok" ELSE status
        /\ dtodo' = dtodo

\* A `?` returns the error from download_videos and main ("err"); an unwrap
\* of None panics.
Halt(f, out, how, files, r, fl) ==
    /\ fs' = files
    /\ media' = media \cup (DOMAIN files \ DOMAIN fs)
    /\ reqs' = r
    /\ failed' = fl
    /\ attempted' = attempted \cup {<<cdir, f>>}
    /\ last' = Step("download", cdir, f, out)
    /\ ftodo' = {}
    /\ cdir' = NoDir
    /\ dtodo' = {}
    /\ pc' = "done"
    /\ status' = how

\* read_dir while the directory changes: a new entry may or may not be listed.
Relisted(left, name) ==
    IF StartsWithVideo(name) THEN {left, left \cup {name}} ELSE {left}

\* Mutant: no existence check before download_video.
FetchMediaAlways(f, url, name, r, fl) ==
    \E res \in download_video(fs, url, cdir, name) :
        IF res.ok
        THEN \E left \in Relisted(ftodo \ {f}, name) :
                Proceed(f, res.out, res.files, Count2(r, "media"), fl, left)
        ELSE Halt(f, res.out, "err", res.files, Count2(r, "media"), TRUE)

\* "Skip downloading if the video file already exists", else download_video
FetchMedia(f, url, name, r, fl) ==
    IF Exists(cdir, name)
    THEN Proceed(f, "exists", fs, r, fl, ftodo \ {f})
    ELSE \E res \in download_video(fs, url, cdir, name) :
            IF res.ok
            THEN \E left \in Relisted(ftodo \ {f}, name) :
                    Proceed(f, res.out, res.files, Count2(r, "media"), fl, left)
            ELSE Halt(f, res.out, "err", res.files, Count2(r, "media"), TRUE)

download_videos ==
    /\ pc = "download"
    /\ cdir # NoDir
    /\ \E f \in ftodo :
          LET content == fs[<<cdir, f>>]
              kind == Classify(content)
              src == IF kind = "direct" THEN FirstVideo(content.elems).src
                     ELSE FirstIframe(content.elems).src
              n == ensure_https_scheme(src)
          IN  \/ /\ content.kind = "bin"
                 /\ Halt(f, "unreadable", "err", fs, reqs, failed)
              \/ /\ content.kind = "text"
                 /\ kind = "direct"
                 /\ IF n.ok
                    THEN FetchMedia(f, n.url, DerivedName(content), reqs, failed)
                    ELSE Halt(f, "bad src", "err", fs, reqs, failed)
              \/ /\ content.kind = "text"
                 /\ kind = "vimeo"
                 /\ IF n.ok
                    THEN \E cfg \in VimeoConfig :
                            CASE cfg = "ok" ->
                                   FetchMedia(f, ProgressiveUrl, DerivedName(content),
                                              Count("config"), failed)
                              [] cfg = "no url" ->
                                   Halt(f, cfg, "panic", fs, Count("config"), TRUE)
                              [] OTHER ->
                                   Halt(f, cfg, "err", fs, Count("config"), TRUE)
                    ELSE Halt(f, "bad src", "err", fs, reqs, failed)
              \/ /\ content.kind = "text"
                 /\ kind = "other"
                 /\ Proceed(f, "reported", fs, reqs, failed, ftodo \ {f})
              \/ /\ content.kind = "text"
                 /\ kind = "none"
                 /\ Proceed(f, "nothing", fs, reqs, failed, ftodo \ {f})
    /\ UNCHANGED <<run, csv, dirs, row, etodo, web, hd, quota, given,
                   returned, snap, frags>>

(***************************************************************************)
(* main, run again on the tree the last run left.                          *)
(***************************************************************************)
main_again ==
    /\ pc = "done"
    /\ run < MaxRuns
    /\ run' = run + 1
    /\ pc' = "csv"
    /\ status' = "running"
    /\ row' = 1
    /\ etodo' = {}
    /\ dtodo' = {}
    /\ cdir' = NoDir
    /\ ftodo' = {}
    /\ reqs' = NoReqs
    /\ failed' = FALSE
    /\ attempted' = {}
    /\ snap' = [fs |-> fs, dirs |-> dirs, status |-> status, failed |-> failed,
                deleted |-> NoPath]
    /\ last' = Step("main", NoDir, <<>>, "started")
    /\ UNCHANGED <<csv, dirs, fs, web, hd, quota, given, returned, frags,
                   media>>

\* The user deletes one fragment file of the tree a run left and runs main
\* again; snap keeps the tree as it was before the deletion.
main_after_delete ==
    /\ pc = "done"
    /\ run < MaxRuns
    /\ \E p \in frags \cap DOMAIN fs :
          /\ fs' = [q \in DOMAIN fs \ {p} |-> fs[q]]
          /\ frags' = frags \ {p}
          /\ snap' = [fs |-> fs, dirs |-> dirs, status |-> status, failed |-> failed,
                      deleted |-> p]
          /\ last' = Step("main", p[1], p[2], "deleted")
    /\ run' = run + 1
    /\ pc' = "csv"
    /\ status' = "running"
    /\ row' = 1
    /\ etodo' = {}
    /\ dtodo' = {}
    /\ cdir' = NoDir
    /\ ftodo' = {}
    /\ reqs' = NoReqs
    /\ failed' = FALSE
    /\ attempted' = {}
    /\ UNCHANGED <<csv, dirs, web, hd, quota, given, returned, media>>

Next ==
    \/ create_crawler_csv
    \/ create_output_folders_open
    \/ create_output_folders
    \/ process_videos_in_html
    \/ download_videos_dir
    \/ download_videos
    \/ main_again

Spec == Init /\ [][Next]_vars

NextResume ==
    \/ Next
    \/ main_after_delete

SpecResume == Init /\ [][NextResume]_vars

\* Runs of main on an input file that may lack a column and a disk that may
\* refuse a write to crawler.csv.
SpecInput == InitInput /\ [][Next]_vars

(***************************************************************************)
(* ensure_https_scheme and sanitize_folder_name called on their own, on    *)
(* every string of a bounded set.                                          *)
(***************************************************************************)
\* No run of main is going on.
Standalone ==
    /\ pc = "call"
    /\ run = 1
    /\ status = "running"
    /\ csv = NoCsv
    /\ dirs = {}
    /\ fs = <<>>
    /\ row = 1
    /\ etodo = {}
    /\ dtodo = {}
    /\ cdir = NoDir
    /\ ftodo = {}
    /\ web = [h \in Hosts |-> <<>>]
    /\ reqs = NoReqs
    /\ failed = FALSE
    /\ snap = NoSnap
    /\ frags = {}
    /\ media = {}
    /\ attempted = {}
    /\ last = Step("init", NoDir, <<>>, "")
    /\ hd = Header
    /\ quota = Len(InputRows)

Call(fn, a) == [fn |-> fn, val |-> a]

\* Address strings: without a scheme, with http or https, with another
\* special scheme (ftp://a.edu/..), with a scheme that needs no host
\* (mailto:..); with and without a host and a path.
Schemes == {"none", "http", "https", "ftp", "mailto"}
Addresses ==
    { Str(sc, h, l) : sc \in Schemes,
                      h \in {"", "a.edu", "b.edu", "vimeo.com"},
                      l \in {<<>>, <<"a", ".mp4">>, <<"12345">>} }

InitNormalize ==
    /\ Standalone
    /\ given \in {Call("ensure_https_scheme", a) : a \in Addresses}
    /\ returned = NoCall

call_ensure_https_scheme ==
    /\ given.fn = "ensure_https_scheme"
    /\ returned = NoCall
    /\ returned' = Call("ensure_https_scheme", ensure_https_scheme(given.val))
    /\ UNCHANGED <<pc, run, status, csv, dirs, fs, row, etodo, dtodo, cdir,
                   ftodo, web, reqs, failed, snap, frags, media, attempted,
                   last, hd, quota, given>>

NextNormalize == call_ensure_https_scheme

SpecNormalize == InitNormalize /\ [][NextNormalize]_vars

\* Display names: every string of at most MaxLen characters over letters,
\* the underscore, the hyphen, the space, the tab and the full stop.
MaxLen == 3
Chars == WordChars \cup SpaceChars \cup {"-", "."}
Names == UNION {[1..k -> Chars] : k \in 0..MaxLen}

InitSanitize ==
    /\ Standalone
    /\ given \in {Call("sanitize_folder_name", s) : s \in Names}
    /\ returned = NoCall

call_sanitize_folder_name ==
    /\ pc = "call"
    /\ given.fn = "sanitize_folder_name"
    /\ returned = NoCall
    /\ returned' = Call("sanitize_folder_name", sanitize_folder_name(given.val))
    /\ UNCHANGED <<pc, run, status, csv, dirs, fs, row, etodo, dtodo, cdir,
                   ftodo, web, reqs, failed, snap, frags, media, attempted,
                   last, hd, quota, given>>

\* The function applied to what it returned; last keeps the first argument.
call_sanitize_folder_name_again ==
    /\ pc = "call"
    /\ returned.fn = "sanitize_folder_name"
    /\ given' = returned
    /\ returned' = Call("sanitize_folder_name", sanitize_folder_name(returned.val))
    /\ last' = Step("call", NoDir, given.val, "again")
    /\ pc' = "again"
    /\ UNCHANGED <<run, status, csv, dirs, fs, row, etodo, dtodo, cdir, ftodo,
                   web, reqs, failed, snap, frags, media, attempted, hd,
                   quota>>

NextSanitize ==
    \/ call_sanitize_folder_name
    \/ call_sanitize_folder_name_again

SpecSanitize == InitSanitize /\ [][NextSanitize]_vars

(***************************************************************************)
(* Properties.                                                             *)
(***************************************************************************)
\* The files of the tree whose name starts with "video_" are the fragment
\* files the extraction pass wrote.
OnlyFragmentsVideoNamed(files) ==
    \A p \in DOMAIN files : StartsWithVideo(p[2]) => p \in frags

\* C1: when the download pass has ended, however it ended, every fragment file
\* of every directory has been taken up by it in this run: a fragment that
\* fails stops only its own processing.
C1_OtherFragmentsStillProcessed ==
    (pc = "done" /\ last.op = "download") =>
        \A p \in frags : p \in DOMAIN fs => p \in attempted

\* C2: no step deletes a file or directory of the tree or changes the content
\* of a file that exists, crawler.csv included.
C2_AppendOnly ==
    [][ /\ \A p \in DOMAIN fs : p \in DOMAIN fs' /\ fs'[p] = fs[p]
        /\ dirs \subseteq dirs'
        /\ csv.exists => csv' = csv ]_vars

\* C2 witness: a second run has ended after adding files to a tree that
\* already held files, some of which it found present and skipped.
C2_Witness ==
    /\ run = 2
    /\ pc = "done"
    /\ snap.fs # <<>>
    /\ DOMAIN fs # DOMAIN snap.fs
    /\ last.out = "exists"

C4_SecondRunNoRequest ==
    (/\ run = 2
     /\ snap.status = "ok"
     /\ ~snap.failed
     /\ OnlyFragmentsVideoNamed(snap.fs))
        => reqs = NoReqs

\* C5: a download step on a fragment whose derived output file exists issues
\* no HTTP request and leaves the tree as it is.
C5_ExistingOutputNoRequest ==
    [][ (/\ pc = "download"
         /\ last'.op = "download"
         /\ fs[<<cdir, last'.file>>].kind = "text"
         /\ Exists(cdir, DerivedName(fs[<<cdir, last'.file>>])))
            => (reqs' = reqs /\ fs' = fs) ]_vars

\* The directory create_output_folders derives for the record it is at.
RowDir == sanitize_folder_name(Trim(csv.rows[row].INSTNM))

\* C6: a step of the mirror pass on a record issues no request and writes
\* nothing exactly when the directory and its index.html both exist; in
\* every other case the directory exists afterwards and one page fetch has
\* been issued.
C6_MirrorSkipsExactlyWhenBothExist ==
    [][ (pc = "mirror" /\ last'.op = "mirror" /\ last'.out # "bad url") =>
            IF RowDir \in dirs /\ Exists(RowDir, IndexHtml)
            THEN reqs' = reqs /\ fs' = fs /\ dirs' = dirs
            ELSE /\ dirs' = dirs \cup {RowDir}
                 /\ reqs' = [reqs EXCEPT !.page = @ + 1] ]_vars

\* C6 witness: a record was fetched into a directory that existed without
\* index.html (an earlier fetch for it had failed).
C6_Witness ==
    /\ run = 2
    /\ last.op = "mirror"
    /\ last.out = "fetched"
    /\ last.dir \in snap.dirs
    /\ <<last.dir, IndexHtml>> \notin DOMAIN snap.fs

\* C7: a failed page fetch writes nothing and the pass goes on with the next
\* record; once the pass is over, every record has been handled.
C7_FetchFailureDoesNotAbort ==
    /\ [][ (pc = "mirror" /\ last'.out = "fetch failed") =>
              /\ fs' = fs
              /\ row' = row + 1
              /\ status' = "running"
              /\ pc' = IF row < Len(csv.rows) THEN "mirror" ELSE "extract" ]_vars
    /\ [](pc \in {"extract", "download", "done"} => row = Len(csv.rows) + 1)

\* C7 witness: the pass fetched a page for a record after the fetch for an
\* earlier record had failed.
C7_Witness ==
    /\ pc = "mirror"
    /\ failed
    /\ last.out = "fetched"

\* C8: a fragment file is written only when the mirror pass has handled every
\* record, and a Vimeo query or media download is issued only when the
\* extraction pass has handled every directory.
C8_StagesDoNotInterleave ==
    [][ /\ (frags' # frags /\ last'.op = "extract") => row = Len(csv.rows) + 1
        /\ (reqs'.config # reqs.config \/ reqs'.media # reqs.media) =>
              (row = Len(csv.rows) + 1 /\ etodo = {}) ]_vars

\* C8 witness: a media download was issued in a run that also wrote fragments
\* for more than one directory.
C8_Witness ==
    /\ run = 1
    /\ reqs.media > 0
    /\ \E p, q \in frags : p[1] # q[1]

\* C9: an extraction step on a page whose matches are e_1..e_k writes e_i to
\* video_{i}.html for exactly the i whose file did not exist, and changes
\* nothing else.
C9_ExtractionNumbering ==
    [][ (pc = "extract" /\ last'.op = "extract" /\ last'.out = "extracted") =>
            LET d == last'.dir
                m == Matches(fs[<<d, IndexHtml>>].elems)
            IN  /\ DOMAIN fs' = DOMAIN fs \cup {<<d, FragName(i)>> : i \in 1..Len(m)}
                /\ \A p \in DOMAIN fs : fs'[p] = fs[p]
                /\ \A i \in 1..Len(m) :
                      ~Exists(d, FragName(i)) =>
                          fs'[<<d, FragName(i)>>] = Text(<<m[i]>>) ]_vars

\* C9 witness: an extraction step of a second run wrote the one missing
\* fragment of a page with several matches and left the others.
C9_Witness ==
    /\ run = 2
    /\ last.op = "extract"
    /\ last.out = "extracted"
    /\ snap.deleted[1] = last.dir
    /\ snap.deleted \in DOMAIN fs
    /\ \E p \in DOMAIN snap.fs : p[1] = last.dir /\ p \in frags /\ p # snap.deleted

C11_NonVimeoIframeOnlyReported ==
    [][ (/\ pc = "download"
         /\ last'.op = "download"
         /\ fs[<<cdir, last'.file>>].kind = "text"
         /\ FirstVideo(fs[<<cdir, last'.file>>].elems).st = "absent"
         /\ FirstIframe(fs[<<cdir, last'.file>>].elems).st = "src"
         /\ FirstIframe(fs[<<cdir, last'.file>>].elems).src.host \notin VimeoHosts)
            => /\ last'.out = "reported"
               /\ reqs' = reqs
               /\ fs' = fs
               /\ status' \in {"running", "ok"}
               /\ ftodo' = ftodo \ {last'.file} ]_vars

\* C12: every URL ensure_https_scheme returns successfully has the scheme
\* http or https, whatever the input string.
C12_NormalizedSchemeIsHttp ==
    (returned.fn = "ensure_https_scheme" /\ returned.val.ok)
        => returned.val.url.scheme \in {"http", "https"}

\* C13: the sanitizer removes every character that is not alphanumeric,
\* underscore, hyphen or whitespace and then puts exactly one underscore for
\* every maximal run of whitespace of any kind: the output has no whitespace
\* character, and its length is the number of kept characters that are not
\* whitespace plus the number of whitespace runs among the kept characters.
C13_WhitespaceRunsCollapsed ==
    (returned.fn = "sanitize_folder_name" /\ pc = "call") =>
        LET out == returned.val
            kept == SelectSeq(given.val,
                              LAMBDA c : c \in WordChars \cup SpaceChars \cup {"-"})
            solid == {i \in 1..Len(kept) : kept[i] \notin SpaceChars}
            runs == {i \in 1..Len(kept) :
                        /\ kept[i] \in SpaceChars
                        /\ (i = 1 \/ kept[i - 1] \notin SpaceChars)}
        IN  /\ \A i \in 1..Len(out) : out[i] \notin SpaceChars
            /\ Len(out) = Cardinality(solid) + Cardinality(runs)

\* C14: the sanitizer is idempotent: applied to its own output it returns
\* that output.
C14_SanitizeIdempotent ==
    (pc = "again") => (returned.val = given.val)

\* C14 witness: the function was applied twice, starting from a name with a
\* character it removes and a space it replaces.
C14_Witness ==
    /\ pc = "again"
    /\ returned.val = given.val
    /\ \E i \in 1..Len(last.file) : last.file[i] = "."
    /\ \E i \in 1..Len(last.file) : last.file[i] = " "
    /\ given.val # last.file

\* C15: a download step treats a fragment in this order: a video element
\* with src gives the direct download; otherwise (no video element, or one
\* without src) an iframe element with src gives the Vimeo lookup when its
\* src is taken for a Vimeo address and the report when it is not; otherwise
\* nothing is done.
C15_ClassificationOrder ==
    [][ (/\ pc = "download"
         /\ last'.op = "download"
         /\ fs[<<cdir, last'.file>>].kind = "text")
            => LET v == FirstVideo(fs[<<cdir, last'.file>>].elems)
                   f == FirstIframe(fs[<<cdir, last'.file>>].elems)
               IN  IF v.st = "src"
                   THEN /\ last'.out \notin {"reported", "nothing", "no url"}
                        /\ reqs'.config = reqs.config
                   ELSE IF f.st = "src"
                   THEN IF ContainsVimeo(f.src)
                        THEN last'.out \notin {"reported", "nothing"}
                        ELSE last'.out = "reported"
                   ELSE last'.out = "nothing" ]_vars

\* C16: whenever crawler.csv exists at the start of a run it is complete: the
\* header and one record, in input order, for every input record whose
\* address normalizes, and no other; also when an earlier run ended with an
\* error in create_crawler_csv.
C16_ExistingCsvComplete ==
    (pc = "csv" /\ csv.exists) =>
        /\ csv.header = Header
        /\ csv.rows = NormalizedRows(InputRows)

\* C17: a media file exists at its output path only if its download
\* completed: a download step whose download_video fails leaves no file at
\* that path, so that a later run finds it missing and retries.
C17_FailedDownloadLeavesNoFile ==
    [][ (/\ pc = "download"
         /\ last'.op = "download"
         /\ last'.out \in {"request failed", "body failed"})
            => /\ DOMAIN fs' = DOMAIN fs
               /\ media' = media ]_vars

\* C18: the download pass reads as a fragment only files the extraction pass
\* wrote: no file created by download_video is among the entries it has
\* started on, in the pass that created it or in a later run.
C18_OnlyFragmentsRead ==
    /\ attempted \subseteq frags
    /\ attempted \cap media = {}

\* The directory create_output_folders derives for record i of crawler.csv.
DirOfRow(i) == sanitize_folder_name(Trim(csv.rows[i].INSTNM))

\* C19: for records whose names sanitize to the same directory, index.html
\* of that directory is written at most once and holds the page of the first
\* of them, in the order the runs handle them, whose fetch succeeded: a step
\* on such a record writes index.html only where there is none, and then the
\* page its own address served; where there is one, the record is skipped
\* with no fetch; and no step of any pass changes an index.html that exists.
C19_CollidingRowsFirstFetchWins ==
    [][ /\ (/\ pc = "mirror"
            /\ last'.op = "mirror"
            /\ \E j \in 1..Len(csv.rows) : j # row /\ DirOfRow(j) = DirOfRow(row))
               => IF Exists(DirOfRow(row), IndexHtml)
                  THEN /\ last'.out = "skipped"
                       /\ reqs' = reqs
                       /\ fs' = fs
                  ELSE /\ reqs' = Count("page")
                       /\ \/ /\ last'.out = "fetched"
                             /\ fs' = WriteFile(fs, DirOfRow(row), IndexHtml,
                                         Text(web[csv.rows[row].WEBADDR.host]))
                          \/ /\ last'.out = "fetch failed"
                             /\ fs' = fs
        /\ \A p \in DOMAIN fs :
               p[2] = IndexHtml => (p \in DOMAIN fs' /\ fs'[p] = fs[p]) ]_vars

\* C19 witness: in the first run the fetch for the first of two colliding
\* records failed and the fetch for the second succeeded; the second run has
\* skipped the first record, and index.html holds the second record's page.
C19_Witness ==
    /\ run = 2
    /\ pc = "mirror"
    /\ row = 2
    /\ last.op = "mirror"
    /\ last.out = "skipped"
    /\ DirOfRow(1) = DirOfRow(2)
    /\ snap.failed
    /\ fs[<<DirOfRow(1), IndexHtml>>] = Text(web[csv.rows[2].WEBADDR.host])
    /\ web[csv.rows[1].WEBADDR.host] # web[csv.rows[2].WEBADDR.host]

====
